---- MODULE Spec2Model ----
(***************************************************************************)
(* lbranch: one run of main() (src/src/index.ts) with its collaborators:   *)
(* argument parsing, the team-config file, the Linear tracker, git and the *)
(* clack prompts.  Strings are sequences of one-character strings, so that *)
(* the regular expressions and string transforms are computed, not assumed.*)
(***************************************************************************)
EXTENDS Integers, Sequences, FiniteSets, TLC

\* ------------------------------------------------------------ bounds

\* largest number of teams the tracker returns to getTeams
MaxTeams == 2
\* largest number of issues the tracker returns to searchIssues
MaxResults == 1

\* ------------------------------------------------------------ characters

UpperChars == <<"A","B","C","D","E","F","G","H","I","J","K","L","M",
                "N","O","P","Q","R","S","T","U","V","W","X","Y","Z">>
LowerChars == <<"a","b","c","d","e","f","g","h","i","j","k","l","m",
                "n","o","p","q","r","s","t","u","v","w","x","y","z">>
Upper == {UpperChars[i] : i \in 1..Len(UpperChars)}
Lower == {LowerChars[i] : i \in 1..Len(LowerChars)}
Digit == {"0","1","2","3","4","5","6","7","8","9"}
\* \s of the regular expressions, as far as the inputs use it
Space == {" ", "\t"}

AllIn(s, class) == \A i \in 1..Len(s) : s[i] \in class

\* String.prototype.trim
RECURSIVE TrimLeft(_)
TrimLeft(s) ==
  IF s # <<>> /\ Head(s) \in Space THEN TrimLeft(Tail(s)) ELSE s

RECURSIVE TrimRight(_)
TrimRight(s) ==
  IF s # <<>> /\ s[Len(s)] \in Space
    THEN TrimRight(SubSeq(s, 1, Len(s) - 1))
    ELSE s

Trim(s) == TrimRight(TrimLeft(s))

\* Array.prototype.join
RECURSIVE Join(_, _)
Join(parts, sep) ==
  IF parts = <<>> THEN <<>>
  ELSE IF Len(parts) = 1 THEN parts[1]
  ELSE parts[1] \o sep \o Join(Tail(parts), sep)

\* String.prototype.toLowerCase on one character
LowerOf(c) ==
  IF c \in Upper
    THEN LowerChars[CHOOSE i \in 1..Len(UpperChars) : UpperChars[i] = c]
    ELSE c

ToLowerCase(s) == [i \in 1..Len(s) |-> LowerOf(s[i])]

\* String.prototype.split(/\s+/): pieces between maximal whitespace runs; a
\* leading or trailing run yields an empty piece, the empty string yields [""]
RECURSIVE SplitFrom(_, _)
SplitFrom(s, cur) ==
  IF s = <<>> THEN <<cur>>
  ELSE IF Head(s) \in Space
    THEN <<cur>> \o SplitFrom(TrimLeft(s), <<>>)
    ELSE SplitFrom(Tail(s), Append(cur, Head(s)))

SplitSpaces(s) == SplitFrom(s, <<>>)

\* the first n elements (Array.prototype.slice(0, n))
Take(parts, n) == SubSeq(parts, 1, IF Len(parts) < n THEN Len(parts) ELSE n)

SlugWords == 5

SlugKeep == Lower \cup Digit \cup {" "}

\* variant: hyphens are kept
slugifyKeepingHyphens(title) ==
  Join(Take(SplitSpaces(Trim(SelectSeq(ToLowerCase(title),
                                       LAMBDA c : c \in SlugKeep \cup {"-"}))),
            SlugWords),
       <<"-">>)

slugify(title) ==
  Join(Take(SplitSpaces(Trim(SelectSeq(ToLowerCase(title),
                                       LAMBDA c : c \in SlugKeep))),
            SlugWords),
       <<"-">>)

\* ------------------------------------------------------------ patterns

\* /^[A-Z]+-\d+$/
MatchesGenericId(s) ==
  \E k \in 1..Len(s) :
    /\ k > 1
    /\ k < Len(s)
    /\ s[k] = "-"
    /\ AllIn(SubSeq(s, 1, k - 1), Upper)
    /\ AllIn(SubSeq(s, k + 1, Len(s)), Digit)

\* new RegExp(`^${teamKey}-\\d+$`), for a key of letters
MatchesTeamId(teamKey, s) ==
  /\ Len(s) > Len(teamKey) + 1
  /\ SubSeq(s, 1, Len(teamKey)) = teamKey
  /\ s[Len(teamKey) + 1] = "-"
  /\ AllIn(SubSeq(s, Len(teamKey) + 2, Len(s)), Digit)

NoKey == <<>>

\* variant: the cached team key is ignored
issueReGeneric(teamKey, s) == MatchesGenericId(s)

\* issueRe.test(s): teamKey ? team pattern : generic pattern
issueRe(teamKey, s) ==
  IF teamKey # NoKey THEN MatchesTeamId(teamKey, s) ELSE MatchesGenericId(s)

\* the split points of /^[a-z]+\/([A-Z]+-[0-9]+)-[a-z0-9-]+$/ in a branch name:
\* i the slash, j the dash inside the id, k the dash after the id
LinkSplits(b) ==
  { ijk \in (1..Len(b)) \X (1..Len(b)) \X (1..Len(b)) :
      /\ 1 < ijk[1]
      /\ ijk[1] + 1 < ijk[2]
      /\ ijk[2] + 1 < ijk[3]
      /\ ijk[3] < Len(b)
      /\ b[ijk[1]] = "/"
      /\ b[ijk[2]] = "-"
      /\ b[ijk[3]] = "-"
      /\ AllIn(SubSeq(b, 1, ijk[1] - 1), Lower)
      /\ AllIn(SubSeq(b, ijk[1] + 1, ijk[2] - 1), Upper)
      /\ AllIn(SubSeq(b, ijk[2] + 1, ijk[3] - 1), Digit)
      /\ AllIn(SubSeq(b, ijk[3] + 1, Len(b)), Lower \cup Digit \cup {"-"}) }

\* variant: no branch name is recognised as linked
isAlreadyLinkedNever(b) == [linked |-> FALSE, issueId |-> <<>>]

isAlreadyLinked(b) ==
  IF LinkSplits(b) # {}
    THEN LET m == CHOOSE ijk \in LinkSplits(b) : TRUE
         IN  [linked |-> TRUE, issueId |-> SubSeq(b, m[1] + 1, m[3] - 1)]
    ELSE [linked |-> FALSE, issueId |-> <<>>]


\* ------------------------------------------------------------ inputs

\* texts the command line, the tracker and the prompts supply
TxtEng142 == <<"E","N","G","-","1","4","2">>
TxtOps7 == <<"O","P","S","-","7">>
TxtFix == <<"f","i","x">>
TxtBug == <<"b","u","g">>
TxtFixBug == <<"f","i","x"," ","b","u","g">>
TxtBlank == <<" ">>
TxtEng == <<"E","N","G">>
TxtTeamEng == <<"t","-","e","n","g">>
TxtTeamOps == <<"t","-","o","p","s">>
TxtOps == <<"O","P","S">>
TxtAliceSmith == <<"A","l","i","c","e"," ","S","m","i","t","h">>
TxtBob == <<"b","o","b">>
TxtCi == <<"c","i">>
TxtMain == <<"m","a","i","n">>
TxtMaster == <<"m","a","s","t","e","r">>
TxtFeature == <<"f","e","a","t","u","r","e">>
TxtLinked == <<"a","l","i","c","e","/","E","N","G","-","1","4","2","-","f","i","x","-","l","o","g","i","n">>
TxtFixLoginBug == <<"F","i","x"," ","l","o","g","i","n"," ","b","u","g">>
TxtBangs == <<"!","!">>
TxtUser1 == <<"u","1">>
TxtUrl == <<"u","r","l">>
TxtInProgress == <<"I","n"," ","P","r","o","g","r","e","s","s">>
TxtWorkInProgress == <<"W","o","r","k"," ","i","n"," ","p","r","o","g","r","e","s","s">>
TxtTodo == <<"T","o","d","o">>
TxtStarted == <<"s","t","a","r","t","e","d">>
TxtUnstarted == <<"u","n","s","t","a","r","t","e","d">>
TxtSt1 == <<"s","1">>
TxtSt2 == <<"s","2">>
TxtProgress == <<"p","r","o","g","r","e","s","s">>

\* argv after the script name: the flags given and the positionals in order
FlagTokens == {"--auto", "-c", "--create"}
PositionalLists ==
  { <<>>, <<TxtEng142>>, <<TxtOps7>>, <<TxtFix, TxtBug>>, <<TxtBlank>> }

\* the team-config file: missing, not JSON, JSON without the two fields, or valid
ConfigFiles ==
  { [st |-> "absent",  teamId |-> <<>>, teamKey |-> <<>>],
    [st |-> "corrupt", teamId |-> <<>>, teamKey |-> <<>>],
    [st |-> "partial", teamId |-> TxtTeamEng, teamKey |-> <<>>],
    [st |-> "valid",   teamId |-> TxtTeamEng, teamKey |-> TxtEng] }

Teams ==
  << [id |-> TxtTeamEng, key |-> TxtEng], [id |-> TxtTeamOps, key |-> TxtOps],
     [id |-> TxtTeamEng, key |-> TxtEng] >>

\* the team lists getTeams can return: prefixes of Teams, the empty one included
TeamLists == { SubSeq(Teams, 1, n) : n \in 0..MaxTeams }

IssueA == [identifier |-> TxtEng142, title |-> TxtFixLoginBug]
IssueB == [identifier |-> TxtOps7, title |-> TxtBangs]
NoIssue == [identifier |-> <<>>, title |-> <<>>]
TrackerIssues == {IssueA, IssueB}

SearchPool == << IssueA, IssueB, IssueA >>
ResultLists == { SubSeq(SearchPool, 1, n) : n \in 0..MaxResults }

\* what `git config user.name` prints when it prints something
GitUserNames == { TxtAliceSmith }
\* what the user types at the name prompt
PromptedNames == { TxtBob }
\* what `git symbolic-ref --short HEAD` prints
Branches == { TxtMain, TxtMaster, TxtFeature, TxtLinked }

\* an optional string: `undefined` is has = FALSE
None == [has |-> FALSE, text |-> <<>>]
Some(t) == [has |-> TRUE, text |-> t]
\* x || undefined
OrUndefined(t) == IF t = <<>> THEN None ELSE Some(t)


\* ------------------------------------------------------------ the API key

TxtKeyPrefix == << "L","I","N","E","A","R","_","A","P","I","_","K","E","Y","=" >>
TxtKeyEnv == << "k","1" >>
\* .env contents
DotEnvWithKey == << "O","T","H","E","R","=","x","\n","L","I","N","E","A","R",
      "_","A","P","I","_","K","E","Y","=","k","2","\n" >>

\* content.split("\n")
RECURSIVE SplitLinesFrom(_, _)
SplitLinesFrom(s, cur) ==
  IF s = <<>> THEN <<cur>>
  ELSE IF Head(s) = "\n"
    THEN <<cur>> \o SplitLinesFrom(Tail(s), <<>>)
    ELSE SplitLinesFrom(Tail(s), Append(cur, Head(s)))


\* the leading run of s without a quote or white space: [^"'\s]+
RECURSIVE KeyRun(_)
KeyRun(s) ==
  IF s = <<>> \/ Head(s) \in {"\"", "'", " ", "\t", "\n", "\r"} THEN <<>>
  ELSE <<Head(s)>> \o KeyRun(Tail(s))

\* match[1] of line.match(/^LINEAR_API_KEY=["']?([^"'\s]+)["']?/), <<>> for
\* a line that does not match
matchKeyLine(line) ==
  LET n == Len(TxtKeyPrefix) IN
  IF Len(line) >= n /\ SubSeq(line, 1, n) = TxtKeyPrefix
    THEN LET rest == SubSeq(line, n + 1, Len(line)) IN
         IF rest # <<>> /\ Head(rest) \in {"\"", "'"}
           THEN KeyRun(Tail(rest))
           ELSE KeyRun(rest)
    ELSE <<>>

\* the first matching line's key, <<>> when no line matches
RECURSIVE firstKeyOf(_)
firstKeyOf(lines) ==
  IF lines = <<>> THEN <<>>
  ELSE IF matchKeyLine(Head(lines)) # <<>> THEN matchKeyLine(Head(lines))
  ELSE firstKeyOf(Tail(lines))

\* process.env.LINEAR_API_KEY (None: unset), whether git finds a repository
\* root, and the .env file there (None: no such file)
Env(key, root, file) == [apiKeyVar |-> key, gitRoot |-> root, dotEnv |-> file]
Environments ==
  { \* the variable set, a key in .env as well
    Env(Some(TxtKeyEnv), TRUE, Some(DotEnvWithKey)),
    \* the variable unset, a quoted key on the first line of .env
    Env(None, TRUE, Some(<< "L","I","N","E","A","R","_","A","P","I","_","K",
          "E","Y","=","\"","k","2","\"","\n","O","T","H","E","R","=","x" >>)),
    \* the variable empty, no .env
    Env(Some(<<>>), TRUE, None),
    \* not in a git repository
    Env(None, FALSE, Some(DotEnvWithKey)),
    \* .env without the key
    Env(None, TRUE, Some(<< "O","T","H","E","R","=","x","\n" >>)),
    \* .env with the key's line but no value
    Env(None, TRUE, Some(<< "L","I","N","E","A","R","_","A","P","I","_","K",
          "E","Y","=","\n","O","T","H","E","R","=","x" >>)),
    \* .env with the key commented out
    Env(Some(<<>>), TRUE, Some(<< "#"," ","L","I","N","E","A","R","_","A","P",
          "I","_","K","E","Y","=","k","2" >>)) }

\* variant: the .env file at the git root is looked at before the variable
loadApiKeyFileFirst(e) ==
  LET fromFile == IF e.gitRoot /\ e.dotEnv.has
                    THEN firstKeyOf(SplitLinesFrom(e.dotEnv.text, <<>>))
                    ELSE <<>>
  IN IF fromFile # <<>>
       THEN [key |-> fromFile, askedRoot |-> TRUE, readFile |-> TRUE]
       ELSE [key |-> e.apiKeyVar.text, askedRoot |-> TRUE,
             readFile |-> e.gitRoot /\ e.dotEnv.has]

\* loadApiKey: the key it returns (<<>>: it throws), whether it asked git for
\* the root, and whether it read the .env file
loadApiKey(e) ==
  IF e.apiKeyVar.has /\ e.apiKeyVar.text # <<>>
    THEN [key |-> e.apiKeyVar.text, askedRoot |-> FALSE, readFile |-> FALSE]
  ELSE IF ~e.gitRoot
    THEN [key |-> <<>>, askedRoot |-> TRUE, readFile |-> FALSE]
  ELSE IF ~e.dotEnv.has
    THEN [key |-> <<>>, askedRoot |-> TRUE, readFile |-> FALSE]
  ELSE [key |-> firstKeyOf(SplitLinesFrom(e.dotEnv.text, <<>>)),
        askedRoot |-> TRUE, readFile |-> TRUE]

\* ------------------------------------------------------------ state

VARIABLES
  env,           \* process.env.LINEAR_API_KEY, the git root and its .env file
  apiKey,        \* linear.ts' module-level key (setApiKey)
  errorMessage,  \* err.message as main().catch printed it
  probe,         \* a function applied on its own: [fn, in, out]
  argv,          \* [flags, positionals]: Bun.argv.slice(2)
  configFile,    \* the team-config file on disk
  pc,            \* where main() is suspended; "exited" once the process ended
  exitCode,      \* -1 while running
  handlerRan,    \* main().catch ran
  calls,         \* tracker calls, git subprocesses, prompts and config writes, in issue order
  gitName,
  currentBranch, \* None until main read it
  mode,
  mainKey,       \* teamKey main() read for its pattern check (None: not read)
  resolverKey,   \* teamKey resolveIssue() read (None: not read)
  title,         \* doCreateIssue's title
  teams,         \* getTeams' result
  team,          \* the team resolveTeamId settled on
  issue,         \* the resolved issue
  inflight,      \* concurrent tracker calls not yet completed
  viewerId,
  inProgressId,
  updates,       \* the fields updateIssue was given
  menu,          \* [todos, recent]: the lists the interactive menu got
  query,         \* the text searchIssues is called with
  results,       \* searchIssues' result
  branchName,
  issueUrl,
  summary        \* the lines clack.note printed

vars == << env, apiKey, errorMessage, probe, argv, configFile, pc, exitCode,
           handlerRan, calls, gitName,
           currentBranch, mode, mainKey, resolverKey, title, teams, team, issue,
           inflight, viewerId, inProgressId, updates, menu, query, results,
           branchName, issueUrl, summary >>

\* ------------------------------------------------------------ argument parsing

\* parseArgs with options auto and c (short c), strict: false: an unknown
\* long option such as --create is stored under its own name
parseArgs(a) ==
  [ values |-> [ auto   |-> "--auto" \in a.flags,
                 c      |-> "-c" \in a.flags,
                 create |-> "--create" \in a.flags ],
    positionals |-> a.positionals ]

autoMode == parseArgs(argv).values.auto
createMode == parseArgs(argv).values.c
arg == Trim(Join(parseArgs(argv).positionals, <<" ">>))

NoMode == [type |-> "none", has |-> FALSE, text |-> <<>>]
Mode(t, opt) == [type |-> t, has |-> opt.has, text |-> opt.text]

\* variant: the create flag is looked at before the auto flag
determineModeCreateFirst ==
  IF createMode THEN Mode("create", OrUndefined(arg))
  ELSE IF autoMode THEN Mode("auto", OrUndefined(arg))
  ELSE IF arg = <<>> THEN Mode("interactive", None)
  ELSE Mode("search", Some(arg))

determineMode ==
  IF autoMode THEN Mode("auto", OrUndefined(arg))
  ELSE IF createMode THEN Mode("create", OrUndefined(arg))
  ELSE IF arg = <<>> THEN Mode("interactive", None)
  ELSE Mode("search", Some(arg))

\* ------------------------------------------------------------ collaborators

TrackerOps == { "getTeams", "getIssueById", "searchIssues", "createIssue",
                "getViewerId", "getInProgressStateId", "updateIssue",
                "getIssueUrl", "getAssignedTodos", "getRecentUnassigned" }
GitReadOps == { "git rev-parse", "git config", "git symbolic-ref" }
GitMutationOps == { "git pull", "git checkout -b", "git branch -m" }
GitOps == GitReadOps \cup GitMutationOps
PromptOps == { "promptGitName", "menuText", "menuSelect", "pickIssue",
               "promptIssueTitle", "selectTeam" }
ConfigWriteOps == { "saveTeamConfig" }

Call(op, args, res) == [op |-> op, args |-> args, res |-> res]

\* loadTeamConfig: the file's content if it parses and has both fields, else null
loadTeamConfig(file) ==
  IF file.st = "valid" /\ file.teamId # <<>> /\ file.teamKey # <<>>
    THEN [teamId |-> file.teamId, teamKey |-> file.teamKey]
    ELSE [teamId |-> <<>>, teamKey |-> NoKey]

\* ------------------------------------------------------------ error messages

\* loadApiKey's error
ErrApiKeyNotFound ==
  << "L","I","N","E","A","R","_","A","P","I","_","K","E","Y"," ","n","o",
     "t"," ","f","o","u","n","d",".","\n"," "," "," ","S","e","t"," ","i",
     "t"," ","a","s"," ","a","n"," ","e","n","v","i","r","o","n","m","e",
     "n","t"," ","v","a","r","i","a","b","l","e",":"," ","e","x","p","o",
     "r","t"," ","L","I","N","E","A","R","_","A","P","I","_","K","E","Y",
     "=","l","i","n","_","a","p","i","_","x","x","x","x","x","\n"," "," ",
     " ","O","r"," ","a","d","d"," ","i","t"," ","t","o"," ","y","o","u",
     "r"," ","r","e","p","o","'","s"," ",".","e","n","v"," ","f","i","l",
     "e",":"," ","L","I","N","E","A","R","_","A","P","I","_","K","E","Y",
     "=","l","i","n","_","a","p","i","_","x","x","x","x","x","\n"," "," ",
     " ","G","e","n","e","r","a","t","e"," ","o","n","e"," ","a","t",":",
     " ","L","i","n","e","a","r"," ",">"," ","S","e","t","t","i","n","g",
     "s"," ",">"," ","A","P","I"," ",">"," ","P","e","r","s","o","n","a",
     "l"," ","A","P","I"," ","K","e","y","s" >>

\* doCreateIssue's error
ErrTitleRequired ==
  << "T","i","t","l","e"," ","i","s"," ","r","e","q","u","i","r","e","d" >>

\* resolveIssue's error for --auto without an argument (its first line)
ErrAutoUsage ==
  << "-","-","a","u","t","o"," ","r","e","q","u","i","r","e","s"," ","a",
     "n"," ","i","s","s","u","e"," ","I","D"," ","o","r"," ","d","e","s",
     "c","r","i","p","t","i","o","n" >>

\* `Issue ${id} not found in Linear`
ErrIssueNotFound(id) == << "I","s","s","u","e"," " >> \o id \o << " ","n","o",
      "t"," ","f","o","u","n","d"," ","i","n"," ","L","i","n", "e","a","r" >>

\* graphql's error for a response that is not ok
ErrApi ==
  << "L","i","n","e","a","r"," ","A","P","I"," ","e","r","r","o","r",":",
     " ","5","0","0" >>

\* createIssue's error for a result without an issue
ErrCreateFailed ==
  << "F","a","i","l","e","d"," ","t","o"," ","c","r","e","a","t","e"," ",
     "i","s","s","u","e" >>

\* gitExec's error for a non-zero exit code: `git ${args[0]} failed: ${stderr}`
ErrGit(cmd) == << "g","i","t"," " >> \o cmd \o << " ","f","a","i","l","e","d",":"," " >>

\* the TypeError of reading a field of teams[0] when no team came back
ErrNoTeam ==
  << "u","n","d","e","f","i","n","e","d"," ","i","s"," ","n","o","t"," ",
     "a","n"," ","o","b","j","e","c","t"," ","(","e","v","a","l","u","a",
     "t","i","n","g"," ","'","t","e","a","m",".","i","d","'",")" >>

\* args[0] of each git subprocess
GitVerb(op) ==
  CASE op = "git rev-parse" -> << "r","e","v","-","p","a","r","s","e" >>
    [] op = "git config" -> << "c","o","n","f","i","g" >>
    [] op = "git symbolic-ref" -> << "s","y","m","b","o","l","i","c","-","r","e","f" >>
    [] op = "git pull" -> << "p","u","l","l" >>
    [] op = "git checkout -b" -> << "c","h","e","c","k","o","u","t" >>
    [] op = "git branch -m" -> << "b","r","a","n","c","h" >>

\* selectTeam's error for a choice that is none of the teams
ErrInvalidTeam ==
  << "I","n","v","a","l","i","d"," ","t","e","a","m"," ","s","e","l","e","c","t","i","o","n" >>

\* the file-system error of a config directory or file that cannot be written
ErrFs ==
  << "E","A","C","C","E","S",":"," ","p","e","r","m","i","s","s","i","o","n",
        " ","d","e","n","i","e","d" >>

\* the process ends through main().catch: message printed, process.exit(1)
Throw(msg) ==
  /\ pc' = "exited"
  /\ exitCode' = 1
  /\ handlerRan' = TRUE
  /\ errorMessage' = msg

\* variant: a cancelled prompt is thrown as an error
CancelThrown ==
  /\ pc' = "exited"
  /\ exitCode' = 1
  /\ handlerRan' = TRUE
  /\ errorMessage' = <<>>

\* clack.isCancel(result): clack.cancel, process.exit(0)
Cancel ==
  /\ pc' = "exited"
  /\ exitCode' = 0
  /\ handlerRan' = FALSE
  /\ errorMessage' = errorMessage

\* main() returned: nothing is pending, the process ends with code 0
Return ==
  /\ pc' = "exited"
  /\ exitCode' = 0
  /\ handlerRan' = FALSE
  /\ errorMessage' = errorMessage

\* the two lists are not used again once showInteractiveMenu is left
NoMenu == [todos |-> <<>>, recent |-> <<>>]


Init ==
  /\ env \in Environments
  /\ apiKey = <<>>
  /\ errorMessage = <<>>
  /\ probe = [fn |-> "none", in |-> <<>>, out |-> <<>>]
  /\ argv \in [flags : SUBSET FlagTokens, positionals : PositionalLists]
  /\ configFile \in ConfigFiles
  /\ pc = "loadApiKey"
  /\ exitCode = -1
  /\ handlerRan = FALSE
  /\ calls = <<>>
  /\ gitName = <<>>
  /\ currentBranch = None
  /\ mode = NoMode
  /\ mainKey = None
  /\ resolverKey = None
  /\ title = None
  /\ teams = <<>>
  /\ team = [id |-> <<>>, key |-> <<>>]
  /\ issue = NoIssue
  /\ inflight = {}
  /\ viewerId = <<>>
  /\ inProgressId = None
  /\ updates = [assigneeId |-> None, stateId |-> None]
  /\ menu = NoMenu
  /\ query = <<>>
  /\ results = <<>>
  /\ branchName = <<>>
  /\ issueUrl = None
  /\ summary = <<>>

\* ------------------------------------------------------------ main: start-up

\* loadApiKey + setApiKey: the environment variable, else the .env file at the
\* git root (getGitRoot swallows a failed rev-parse), else an error
LoadApiKey ==
  /\ pc = "loadApiKey"
  /\ LET r == loadApiKey(env)
         asked == IF r.askedRoot
                    THEN << Call("git rev-parse", <<>>,
                                 IF env.gitRoot THEN "ok" ELSE "fail") >>
                    ELSE <<>>
         read == IF r.readFile THEN << Call("read .env", <<>>, "ok") >> ELSE <<>>
     IN /\ calls' = calls \o asked \o read
        /\ IF r.key # <<>>
             THEN /\ apiKey' = r.key
                  /\ pc' = "getGitName"
                  /\ UNCHANGED << exitCode, handlerRan, errorMessage >>
             ELSE /\ Throw(ErrApiKeyNotFound)
                  /\ UNCHANGED apiKey
  /\ UNCHANGED << env, probe, argv, configFile, gitName, currentBranch, mode, mainKey,
                  resolverKey, title, teams, team, issue, inflight, viewerId,
                  inProgressId, updates, menu, query, results, branchName, issueUrl, summary >>

\* the first whitespace-separated token of the full name, lower-cased
firstNameOf(fullName) == ToLowerCase(SplitSpaces(fullName)[1])

\* getGitName(autoMode): `git config user.name`, whose exit code is not looked
\* at and whose spawn error is caught; without output "ci" in --auto mode,
\* else "" and main goes on to promptGitName
GetGitName ==
  /\ pc = "getGitName"
  /\ \E out \in GitUserNames \cup {<<>>} :
       LET fullName == Trim(out) IN
       /\ calls' = Append(calls, Call("git config", <<>>,
                                      IF out = <<>> THEN "fail" ELSE "ok"))
       /\ gitName' = IF fullName # <<>> THEN firstNameOf(fullName)
                     ELSE IF autoMode THEN TxtCi
                     ELSE <<>>
       /\ pc' = IF gitName' = <<>> /\ ~autoMode
                  THEN "promptGitName" ELSE "getCurrentBranch"
  /\ UNCHANGED << env, apiKey, probe, argv, configFile, exitCode, handlerRan, errorMessage, currentBranch, mode,
                  mainKey, resolverKey, title, teams, team, issue, inflight,
                  viewerId, inProgressId, updates, menu, query, results, branchName, issueUrl,
                  summary >>

PromptGitName ==
  /\ pc = "promptGitName"
  /\ \/ \E name \in PromptedNames :
          /\ calls' = Append(calls, Call("promptGitName", <<>>, "ok"))
          /\ gitName' = name
          /\ pc' = "getCurrentBranch"
          /\ UNCHANGED << exitCode, handlerRan, errorMessage >>
     \/ /\ calls' = Append(calls, Call("promptGitName", <<>>, "cancel"))
        /\ Cancel
        /\ UNCHANGED gitName
  /\ UNCHANGED << env, apiKey, probe, argv, configFile, currentBranch, mode, mainKey, resolverKey,
                  title, teams, team, issue, inflight, viewerId, inProgressId,
                  updates, menu, query, results, branchName, issueUrl, summary >>

\* getCurrentBranch, isAlreadyLinked, and for an unlinked branch determineMode
GetCurrentBranch ==
  /\ pc = "getCurrentBranch"
  /\ \/ /\ calls' = Append(calls, Call("git symbolic-ref", <<>>, "fail"))
        /\ Throw(ErrGit(GitVerb("git symbolic-ref")))
        /\ UNCHANGED << currentBranch, mode >>
     \/ \E b \in Branches :
          /\ calls' = Append(calls, Call("git symbolic-ref", <<>>, "ok"))
          /\ currentBranch' = Some(b)
          /\ IF isAlreadyLinked(b).linked
               THEN /\ Return
                    /\ UNCHANGED mode
               ELSE /\ mode' = determineMode
                    /\ pc' = IF mode'.type = "search"
                               THEN "mainLoadTeamConfig"
                               ELSE "resolveIssue"
                    /\ UNCHANGED << exitCode, handlerRan, errorMessage >>
  /\ UNCHANGED << env, apiKey, probe, argv, configFile, gitName, mainKey, resolverKey, title, teams,
                  team, issue, inflight, viewerId, inProgressId, updates, menu, query, results,
                  branchName, issueUrl, summary >>

\* variant: every search becomes direct, whatever the query looks like
MainLoadTeamConfigUnchecked ==
  /\ pc = "mainLoadTeamConfig"
  /\ mainKey' = Some(loadTeamConfig(configFile).teamKey)
  /\ mode' = Mode("direct", Some(mode.text))
  /\ pc' = "resolveIssue"
  /\ UNCHANGED << env, apiKey, probe, argv, configFile, exitCode, handlerRan,
                  errorMessage, calls, gitName, currentBranch, resolverKey,
                  title, teams, team, issue, inflight, viewerId, inProgressId,
                  updates, menu, query, results, branchName, issueUrl, summary >>

\* variant: main's check drops the cached team config once it has read it
MainLoadTeamConfigResetting ==
  /\ pc = "mainLoadTeamConfig"
  /\ LET teamKey == loadTeamConfig(configFile).teamKey IN
       /\ mainKey' = Some(teamKey)
       /\ mode' = IF issueRe(teamKey, mode.text)
                    THEN Mode("direct", Some(mode.text))
                    ELSE mode
  /\ configFile' = [st |-> "absent", teamId |-> <<>>, teamKey |-> <<>>]
  /\ pc' = "resolveIssue"
  /\ UNCHANGED << env, apiKey, probe, argv, exitCode, handlerRan, errorMessage,
                  calls, gitName, currentBranch, resolverKey, title, teams,
                  team, issue, inflight, viewerId, inProgressId, updates,
                  menu, query, results, branchName, issueUrl, summary >>

\* main's own pattern check: a search whose query looks like an issue id
\* becomes direct
MainLoadTeamConfig ==
  /\ pc = "mainLoadTeamConfig"
  /\ LET teamKey == loadTeamConfig(configFile).teamKey IN
       /\ mainKey' = Some(teamKey)
       /\ mode' = IF issueRe(teamKey, mode.text)
                    THEN Mode("direct", Some(mode.text))
                    ELSE mode
  /\ pc' = "resolveIssue"
  /\ UNCHANGED << env, apiKey, probe, argv, configFile, exitCode, handlerRan, errorMessage, calls, gitName,
                  currentBranch, resolverKey, title, teams, team, issue,
                  inflight, viewerId, inProgressId, updates, menu, query, results, branchName,
                  issueUrl, summary >>


\* ------------------------------------------------------------ resolveIssue

\* the index of the pending call `op` in the log
PendingIndex(op) ==
  CHOOSE i \in 1..Len(calls) : calls[i].op = op /\ calls[i].res = "pending"

Complete(op, res) == [calls EXCEPT ![PendingIndex(op)].res = res]

\* resolveIssue returned i: main starts the spinner and issues getViewerId and
\* getInProgressStateId together (Promise.all)
Resolved(i, log) ==
  /\ issue' = i
  /\ calls' = log \o << Call("getViewerId", <<>>, "pending"),
                        Call("getInProgressStateId", <<i.identifier>>, "pending") >>
  /\ inflight' = {"getViewerId", "getInProgressStateId"}
  /\ pc' = "updateInputs"
  /\ UNCHANGED << exitCode, handlerRan, errorMessage >>

\* variant: the title is neither prompted for nor required
doCreateIssueUnchecked(t) ==
  /\ title' = t
  /\ pc' = "resolveTeamId"
  /\ UNCHANGED << exitCode, handlerRan, errorMessage >>

\* doCreateIssue(t) up to its first await: the title prompt when t is
\* undefined and the run is attended, "Title is required" without a title,
\* else resolveTeamId
doCreateIssue(t) ==
  IF ~t.has /\ ~autoMode
    THEN /\ pc' = "promptIssueTitle"
         /\ UNCHANGED << title, exitCode, handlerRan, errorMessage >>
    ELSE IF ~t.has \/ t.text = <<>>
      THEN /\ Throw(ErrTitleRequired)
           /\ UNCHANGED title
      ELSE /\ title' = t
           /\ pc' = "resolveTeamId"
           /\ UNCHANGED << exitCode, handlerRan, errorMessage >>

\* resolveIssue(mode) up to the first await after its own loadTeamConfig
ResolveIssue ==
  /\ pc = "resolveIssue"
  /\ LET teamKey == loadTeamConfig(configFile).teamKey IN
     /\ resolverKey' = Some(teamKey)
     /\ CASE mode.type = "direct" ->
               /\ pc' = "getIssueById"
               /\ UNCHANGED << title, exitCode, handlerRan, errorMessage, calls, inflight, query >>
          [] mode.type = "create" ->
               /\ doCreateIssue([has |-> mode.has, text |-> mode.text])
               /\ UNCHANGED << calls, inflight, query >>
          [] mode.type = "auto" ->
               IF ~mode.has \/ mode.text = <<>>
                 THEN /\ Throw(ErrAutoUsage)
                      /\ UNCHANGED << title, calls, inflight, query >>
                 ELSE IF issueRe(teamKey, mode.text)
                   THEN /\ pc' = "getIssueById"
                        /\ UNCHANGED << title, exitCode, handlerRan, errorMessage, calls,
                                        inflight, query >>
                   ELSE /\ doCreateIssue(Some(mode.text))
                        /\ UNCHANGED << calls, inflight, query >>
          [] mode.type = "search" ->
               /\ IF issueRe(teamKey, mode.text)
                    THEN /\ pc' = "getIssueById"
                         /\ UNCHANGED query
                    ELSE /\ pc' = "searchIssues"
                         /\ query' = mode.text
               /\ UNCHANGED << title, exitCode, handlerRan, errorMessage, calls, inflight >>
          [] mode.type = "interactive" ->
               /\ calls' = calls \o << Call("getAssignedTodos", <<>>, "pending"),
                                       Call("getRecentUnassigned", <<>>, "pending") >>
               /\ inflight' = {"getAssignedTodos", "getRecentUnassigned"}
               /\ pc' = "menuFetch"
               /\ UNCHANGED << title, exitCode, handlerRan, errorMessage, query >>
  /\ UNCHANGED << env, apiKey, probe, argv, configFile, gitName, currentBranch, mode, mainKey,
                  teams, team, issue, viewerId, inProgressId, updates, menu,
                  results, branchName, issueUrl, summary >>

\* variant: an issue that is not found is created instead
GetIssueByIdOrCreate ==
  /\ pc = "getIssueById"
  /\ \/ /\ calls' = Append(calls, Call("getIssueById", <<mode.text>>, "fail"))
        /\ Throw(ErrApi)
        /\ UNCHANGED << issue, inflight, title >>
     \/ /\ calls' = Append(calls, Call("getIssueById", <<mode.text>>, "null"))
        /\ doCreateIssue(Some(mode.text))
        /\ UNCHANGED << issue, inflight >>
     \/ \E i \in TrackerIssues :
          /\ Resolved(i, Append(calls, Call("getIssueById", <<mode.text>>, "ok")))
          /\ UNCHANGED title
  /\ UNCHANGED << env, apiKey, probe, argv, configFile, gitName, currentBranch, mode, mainKey,
                  resolverKey, teams, team, viewerId, inProgressId, updates,
                  menu, query, results, branchName, issueUrl, summary >>

\* getIssueById(id) for direct, auto and search: an error, null (not found), or
\* an issue
GetIssueById ==
  /\ pc = "getIssueById"
  /\ \/ /\ calls' = Append(calls, Call("getIssueById", <<mode.text>>, "fail"))
        /\ Throw(ErrApi)
        /\ UNCHANGED << issue, inflight >>
     \/ /\ calls' = Append(calls, Call("getIssueById", <<mode.text>>, "null"))
        /\ Throw(ErrIssueNotFound(mode.text))
        /\ UNCHANGED << issue, inflight >>
     \/ \E i \in TrackerIssues :
          Resolved(i, Append(calls, Call("getIssueById", <<mode.text>>, "ok")))
  /\ UNCHANGED << env, apiKey, probe, argv, configFile, gitName, currentBranch, mode, mainKey,
                  resolverKey, title, teams, team, viewerId, inProgressId,
                  updates, menu, query, results, branchName, issueUrl, summary >>

\* variant: without results the picker is skipped and the issue created
SearchIssuesSkippingEmptyPicker ==
  /\ pc = "searchIssues"
  /\ \/ /\ calls' = Append(calls, Call("searchIssues", <<query>>, "fail"))
        /\ Throw(ErrApi)
        /\ UNCHANGED << results, title >>
     \/ \E r \in ResultLists :
          /\ calls' = Append(calls, Call("searchIssues", <<query>>, "ok"))
          /\ results' = r
          /\ IF r = <<>>
               THEN doCreateIssue(None)
               ELSE /\ pc' = "pickIssue"
                    /\ UNCHANGED << title, exitCode, handlerRan, errorMessage >>
  /\ UNCHANGED << env, apiKey, probe, argv, configFile, gitName, currentBranch,
                  mode, mainKey, resolverKey, teams, team, issue, inflight,
                  viewerId, inProgressId, updates, menu, query, branchName,
                  issueUrl, summary >>

\* searchIssues(query) of the search mode and of the menu's search action
SearchIssues ==
  /\ pc = "searchIssues"
  /\ \/ /\ calls' = Append(calls, Call("searchIssues", <<query>>, "fail"))
        /\ Throw(ErrApi)
        /\ UNCHANGED results
     \/ \E r \in ResultLists :
          /\ calls' = Append(calls, Call("searchIssues", <<query>>, "ok"))
          /\ results' = r
          /\ pc' = "pickIssue"
          /\ UNCHANGED << exitCode, handlerRan, errorMessage >>
  /\ UNCHANGED << env, apiKey, probe, argv, configFile, gitName, currentBranch, mode, mainKey,
                  resolverKey, title, teams, team, issue, inflight, viewerId,
                  inProgressId, updates, menu, query, branchName, issueUrl,
                  summary >>

\* issueMap.get("issue:" + identifier): the last option set under that key
issueMapGet(options, identifier) ==
  options[CHOOSE k \in 1..Len(options) :
            /\ options[k].identifier = identifier
            /\ \A j \in (k + 1)..Len(options) :
                 options[j].identifier # identifier]

\* pickIssue(results): cancelled, the "Create a new issue" option, or one of
\* the issues
PickIssue ==
  /\ pc = "pickIssue"
  /\ LET offered == [k \in 1..Len(results) |-> results[k].identifier] IN
     \/ /\ calls' = Append(calls, Call("pickIssue", offered, "cancel"))
        /\ Cancel
        /\ UNCHANGED << issue, inflight, title >>
     \/ /\ calls' = Append(calls, Call("pickIssue", offered, "create"))
        /\ doCreateIssue(None)
        /\ UNCHANGED << issue, inflight >>
     \/ \E n \in 1..Len(results) :
          /\ Resolved(issueMapGet(results, results[n].identifier),
                      Append(calls, Call("pickIssue", offered, "ok")))
          /\ UNCHANGED title
  /\ UNCHANGED << env, apiKey, probe, argv, configFile, gitName, currentBranch, mode, mainKey,
                  resolverKey, teams, team, viewerId, inProgressId, updates,
                  menu, query, results, branchName, issueUrl, summary >>


\* ------------------------------------------------------------ create flow

\* what the user types at the title prompt (validate rejects blank input)
PromptedTitles == { TxtFixBug }

PromptIssueTitle ==
  /\ pc = "promptIssueTitle"
  /\ \/ /\ calls' = Append(calls, Call("promptIssueTitle", <<>>, "cancel"))
        /\ Cancel
        /\ UNCHANGED title
     \/ \E t \in PromptedTitles :
          /\ calls' = Append(calls, Call("promptIssueTitle", <<>>, "ok"))
          /\ doCreateIssue(Some(t))
  /\ UNCHANGED << env, apiKey, probe, argv, configFile, gitName, currentBranch, mode, mainKey,
                  resolverKey, teams, team, issue, inflight, viewerId,
                  inProgressId, updates, menu, query, results, branchName,
                  issueUrl, summary >>

\* variant: the teams are fetched whether or not a team is cached
ResolveTeamIdUncached ==
  /\ pc = "resolveTeamId"
  /\ pc' = "getTeams"
  /\ UNCHANGED << env, apiKey, probe, argv, configFile, exitCode, handlerRan,
                  errorMessage, calls, gitName, currentBranch, mode, mainKey,
                  resolverKey, title, teams, team, issue, inflight, viewerId,
                  inProgressId, updates, menu, query, results, branchName,
                  issueUrl, summary >>

\* resolveTeamId: the cached team, else on to getTeams
ResolveTeamId ==
  /\ pc = "resolveTeamId"
  /\ LET cached == loadTeamConfig(configFile) IN
       IF cached.teamKey # NoKey
         THEN /\ team' = [id |-> cached.teamId, key |-> cached.teamKey]
              /\ pc' = "createIssue"
         ELSE /\ pc' = "getTeams"
              /\ UNCHANGED team
  /\ UNCHANGED << env, apiKey, probe, argv, configFile, exitCode, handlerRan, errorMessage, calls, gitName,
                  currentBranch, mode, mainKey, resolverKey, title, teams,
                  issue, inflight, viewerId, inProgressId, updates, menu, query,
                  results, branchName, issueUrl, summary >>

\* variant: the first team is taken only when it is the only one
picksFirstTeamIfSingle(ts) == Len(ts) = 1

\* teams.length === 1 || autoMode
picksFirstTeam(ts) == Len(ts) = 1 \/ autoMode

\* getTeams, then teams[0] for a single team or in --auto mode (reading .id of
\* the missing first team of an empty list throws), else selectTeam
GetTeams ==
  /\ pc = "getTeams"
  /\ \/ /\ calls' = Append(calls, Call("getTeams", <<>>, "fail"))
        /\ Throw(ErrApi)
        /\ UNCHANGED << teams, team >>
     \/ \E ts \in TeamLists :
          /\ calls' = Append(calls, Call("getTeams", <<>>, "ok"))
          /\ teams' = ts
          /\ IF picksFirstTeam(ts)
               THEN IF ts = <<>>
                      THEN /\ Throw(ErrNoTeam)
                           /\ UNCHANGED team
                      ELSE /\ team' = ts[1]
                           /\ pc' = "saveTeamConfig"
                           /\ UNCHANGED << exitCode, handlerRan, errorMessage >>
               ELSE /\ pc' = "selectTeam"
                    /\ UNCHANGED << team, exitCode, handlerRan, errorMessage >>
  /\ UNCHANGED << env, apiKey, probe, argv, configFile, gitName, currentBranch, mode, mainKey,
                  resolverKey, title, issue, inflight, viewerId, inProgressId,
                  updates, menu, query, results, branchName, issueUrl, summary >>

\* selectTeam(teams): cancelled, or the chosen team; a choice that is none of
\* the teams (nothing to choose from) is "Invalid team selection"
SelectTeam ==
  /\ pc = "selectTeam"
  /\ \/ /\ calls' = Append(calls, Call("selectTeam", <<>>, "cancel"))
        /\ Cancel
        /\ UNCHANGED team
     \/ /\ teams = <<>>
        /\ calls' = Append(calls, Call("selectTeam", <<>>, "invalid"))
        /\ Throw(ErrInvalidTeam)
        /\ UNCHANGED team
     \/ \E n \in 1..Len(teams) :
          /\ calls' = Append(calls, Call("selectTeam", <<>>, "ok"))
          \* teams.find: the first team with the chosen id
          /\ team' = teams[CHOOSE k \in 1..Len(teams) :
                             /\ teams[k].id = teams[n].id
                             /\ \A j \in 1..(k - 1) : teams[j].id # teams[n].id]
          /\ pc' = "saveTeamConfig"
          /\ UNCHANGED << exitCode, handlerRan, errorMessage >>
  /\ UNCHANGED << env, apiKey, probe, argv, configFile, gitName, currentBranch, mode, mainKey,
                  resolverKey, title, teams, issue, inflight, viewerId,
                  inProgressId, updates, menu, query, results, branchName,
                  issueUrl, summary >>

\* variant: the title is asked for once the team was saved
SaveTeamConfigBeforeTitle ==
  /\ pc = "saveTeamConfig"
  /\ \/ /\ calls' = Append(calls, Call("saveTeamConfig", <<team.id, team.key>>, "fail"))
        /\ Throw(ErrFs)
        /\ UNCHANGED configFile
     \/ /\ calls' = Append(calls, Call("saveTeamConfig", <<team.id, team.key>>, "ok"))
        /\ configFile' = [st |-> "valid", teamId |-> team.id, teamKey |-> team.key]
        /\ pc' = "promptIssueTitle"
        /\ UNCHANGED << exitCode, handlerRan, errorMessage >>
  /\ UNCHANGED << env, apiKey, probe, argv, gitName, currentBranch, mode,
                  mainKey, resolverKey, title, teams, team, issue, inflight,
                  viewerId, inProgressId, updates, menu, query, results,
                  branchName, issueUrl, summary >>

\* saveTeamConfig({teamId, teamKey}): mkdir + write, either of which can fail
SaveTeamConfig ==
  /\ pc = "saveTeamConfig"
  /\ \/ /\ calls' = Append(calls, Call("saveTeamConfig", <<team.id, team.key>>, "fail"))
        /\ Throw(ErrFs)
        /\ UNCHANGED configFile
     \/ /\ calls' = Append(calls, Call("saveTeamConfig", <<team.id, team.key>>, "ok"))
        /\ configFile' = [st |-> "valid", teamId |-> team.id, teamKey |-> team.key]
        /\ pc' = "createIssue"
        /\ UNCHANGED << exitCode, handlerRan, errorMessage >>
  /\ UNCHANGED << env, apiKey, probe, argv, gitName, currentBranch, mode, mainKey, resolverKey,
                  title, teams, team, issue, inflight, viewerId, inProgressId,
                  updates, menu, query, results, branchName, issueUrl, summary >>

\* the identifier the tracker gives an issue created in team t
CreatedIdentifier(t) == IF t.key = TxtOps THEN TxtOps7 ELSE TxtEng142

\* linearCreateIssue(title, teamId): an error, an answer without an issue
\* identifier ("Failed to create issue"), or the created issue
CreateIssue ==
  /\ pc = "createIssue"
  /\ \/ \E res \in {"fail", "null"} :
          /\ calls' = Append(calls, Call("createIssue", <<title.text, team.id>>, res))
          /\ Throw(IF res = "fail" THEN ErrApi ELSE ErrCreateFailed)
          /\ UNCHANGED << issue, inflight >>
     \/ Resolved([identifier |-> CreatedIdentifier(team), title |-> title.text],
                 Append(calls, Call("createIssue", <<title.text, team.id>>, "ok")))
  /\ UNCHANGED << env, apiKey, probe, argv, configFile, gitName, currentBranch, mode, mainKey,
                  resolverKey, title, teams, team, viewerId, inProgressId,
                  updates, menu, query, results, branchName, issueUrl, summary >>

\* ------------------------------------------------------------ interactive menu

\* a concurrent call of a Promise.all fails: the rejection reaches main().catch
\* while the other call may still be in flight
FailInflight(op) ==
  /\ calls' = Complete(op, "fail")
  /\ inflight' = inflight \ {op}
  /\ Throw(ErrApi)

\* getAssignedTodos(3) and getRecentUnassigned(6) complete in either order;
\* the menu's text prompt follows the later one
MenuFetch ==
  /\ pc = "menuFetch"
  /\ \E op \in inflight :
       \/ /\ FailInflight(op)
          /\ UNCHANGED menu
       \/ \E r \in ResultLists :
            /\ calls' = Complete(op, "ok")
            /\ inflight' = inflight \ {op}
            /\ menu' = IF op = "getAssignedTodos"
                         THEN [menu EXCEPT !.todos = r]
                         ELSE [menu EXCEPT !.recent = r]
            /\ pc' = IF inflight' = {} THEN "menuText" ELSE "menuFetch"
            /\ UNCHANGED << exitCode, handlerRan, errorMessage >>
  /\ UNCHANGED << env, apiKey, probe, argv, configFile, gitName, currentBranch, mode, mainKey,
                  resolverKey, title, teams, team, issue, viewerId,
                  inProgressId, updates, query, results, branchName, issueUrl,
                  summary >>

\* what the user types into the menu's text input
MenuInputs == { <<>>, TxtBlank, TxtFix, TxtEng142 }

\* showInteractiveMenu, step 1: typed text goes to the search action
MenuText ==
  /\ pc = "menuText"
  /\ \/ /\ calls' = Append(calls, Call("menuText", <<>>, "cancel"))
        /\ Cancel
        /\ menu' = NoMenu
        /\ UNCHANGED query
     \/ \E input \in MenuInputs :
          /\ calls' = Append(calls, Call("menuText", <<>>, "ok"))
          /\ IF Trim(input) # <<>>
               THEN /\ query' = Trim(input)
                    /\ menu' = NoMenu
                    /\ pc' = "searchIssues"
               ELSE /\ pc' = "menuSelect"
                    /\ UNCHANGED << query, menu >>
          /\ UNCHANGED << exitCode, handlerRan, errorMessage >>
  /\ UNCHANGED << env, apiKey, probe, argv, configFile, gitName, currentBranch, mode, mainKey,
                  resolverKey, title, teams, team, issue, inflight, viewerId,
                  inProgressId, updates, results, branchName, issueUrl,
                  summary >>

\* the todos without repeated identifiers, in order
RECURSIVE DedupTodos(_, _)
DedupTodos(todos, seen) ==
  IF todos = <<>> THEN <<>>
  ELSE IF Head(todos).identifier \in seen
    THEN DedupTodos(Tail(todos), seen)
    ELSE <<Head(todos)>>
           \o DedupTodos(Tail(todos), seen \cup {Head(todos).identifier})

RecentShown == 3

\* variant: the first recent issues are shown, todos among them or not
recentUnfiltered(todos, recent) == Take(recent, RecentShown)

\* recent.filter(not seen among the todos).slice(0, 3)
recentFiltered(todos, recent) ==
  Take(SelectSeq(recent,
                 LAMBDA i : \A k \in 1..Len(todos) :
                              todos[k].identifier # i.identifier),
       RecentShown)

\* the issue options of the menu, before "Create a new issue"
menuOptions(todos, recent) ==
  DedupTodos(todos, {}) \o recentFiltered(todos, recent)

TxtIssueColon == <<"i","s","s","u","e",":">>
TxtActionCreate == <<"a","c","t","i","o","n",":","c","r","e","a","t","e">>

\* the values of the select's options: `issue:${identifier}` for each listed
\* issue, then "action:create"
menuValues(todos, recent) ==
  LET options == menuOptions(todos, recent) IN
  [k \in 1..Len(options) |-> TxtIssueColon \o options[k].identifier]
    \o <<TxtActionCreate>>

\* showInteractiveMenu, step 2: cancelled, "Create a new issue" (title ""), or
\* one of the listed issues
MenuSelect ==
  /\ pc = "menuSelect"
  /\ LET options == menuOptions(menu.todos, menu.recent) IN
     \/ /\ calls' = Append(calls, Call("menuSelect", <<>>, "cancel"))
        /\ Cancel
        /\ UNCHANGED << issue, inflight, title >>
     \/ /\ calls' = Append(calls, Call("menuSelect", <<>>, "create"))
        /\ doCreateIssue(OrUndefined(<<>>))
        /\ UNCHANGED << issue, inflight >>
     \/ \E n \in 1..Len(options) :
          /\ Resolved(issueMapGet(options, options[n].identifier),
                      Append(calls, Call("menuSelect", <<>>, "ok")))
          /\ UNCHANGED title
  /\ menu' = NoMenu
  /\ UNCHANGED << env, apiKey, probe, argv, configFile, gitName, currentBranch, mode, mainKey,
                  resolverKey, teams, team, viewerId, inProgressId, updates,
                  query, results, branchName, issueUrl, summary >>


\* ------------------------------------------------------------ main: update

\* the workflow states of the issue's team, as the tracker lists them
WfState(id, name, type) == [id |-> id, name |-> name, type |-> type]
StateLists ==
  { << WfState(TxtSt1, TxtTodo, TxtUnstarted),
       WfState(TxtSt2, TxtInProgress, TxtStarted) >>,
    << WfState(TxtSt1, TxtWorkInProgress, TxtStarted) >>,
    << WfState(TxtSt1, TxtTodo, TxtUnstarted) >> }

\* needle occurs in hay
Contains(hay, needle) ==
  \E i \in 0..(Len(hay) - Len(needle)) :
    SubSeq(hay, i + 1, i + Len(needle)) = needle

\* Array.prototype.find(...)?.id: the id of the first state whose test (hits[k])
\* succeeded, if any
FindId(states, hits) ==
  IF \E k \in 1..Len(states) : hits[k]
    THEN Some(states[CHOOSE k \in 1..Len(states) :
                       /\ hits[k]
                       /\ \A j \in 1..(k - 1) : ~hits[j]].id)
    ELSE None

\* variant: the started state with "progress" in its name is preferred to the
\* state named "In Progress"
getInProgressStateIdByTypeFirst(states) ==
  LET byName == FindId(states, [k \in 1..Len(states) |->
                                 states[k].name = TxtInProgress])
      byType == FindId(states, [k \in 1..Len(states) |->
                                 /\ states[k].type = TxtStarted
                                 /\ Contains(ToLowerCase(states[k].name), TxtProgress)])
  IN  IF byType.has THEN byType ELSE byName

\* the state named "In Progress", else the first started state whose name
\* matches /progress/i, else null
getInProgressStateId(states) ==
  LET byName == FindId(states, [k \in 1..Len(states) |->
                                 states[k].name = TxtInProgress])
      byType == FindId(states, [k \in 1..Len(states) |->
                                 /\ states[k].type = TxtStarted
                                 /\ Contains(ToLowerCase(states[k].name), TxtProgress)])
  IN  IF byName.has THEN byName ELSE byType

\* the ids viewer { id } can carry: main guards against a falsy one
ViewerIds == { TxtUser1, <<>> }

\* the updates object: a field is set only for a truthy id
buildUpdates(vId, sId) ==
  [ assigneeId |-> IF vId # <<>> THEN Some(vId) ELSE None,
    stateId    |-> IF sId.has /\ sId.text # <<>> THEN sId ELSE None ]

\* variant: main goes on as soon as the first of the two calls completed
UpdateInputsRacing ==
  /\ pc = "updateInputs"
  /\ \E op \in inflight :
       \/ /\ FailInflight(op)
          /\ UNCHANGED << viewerId, inProgressId, updates >>
       \/ /\ calls' = Complete(op, "ok")
          /\ inflight' = inflight \ {op}
          /\ IF op = "getViewerId"
               THEN /\ \E v \in ViewerIds : viewerId' = v
                    /\ UNCHANGED inProgressId
               ELSE /\ \E sl \in StateLists :
                         inProgressId' = getInProgressStateId(sl)
                    /\ UNCHANGED viewerId
          /\ updates' = buildUpdates(viewerId', inProgressId')
          /\ pc' = "updateIssue"
          /\ UNCHANGED << exitCode, handlerRan, errorMessage >>
  /\ UNCHANGED << env, apiKey, probe, argv, configFile, gitName, currentBranch,
                  mode, mainKey, resolverKey, title, teams, team, issue, menu,
                  query, results, branchName, issueUrl, summary >>

\* getViewerId and getInProgressStateId complete in either order; after the
\* later one main builds the updates and goes on to updateIssue
UpdateInputs ==
  /\ pc = "updateInputs"
  /\ \E op \in inflight :
       \/ /\ FailInflight(op)
          /\ UNCHANGED << viewerId, inProgressId, updates >>
       \/ /\ calls' = Complete(op, "ok")
          /\ inflight' = inflight \ {op}
          /\ IF op = "getViewerId"
               THEN /\ \E v \in ViewerIds : viewerId' = v
                    /\ UNCHANGED inProgressId
               ELSE /\ \E sl \in StateLists :
                         inProgressId' = getInProgressStateId(sl)
                    /\ UNCHANGED viewerId
          /\ IF inflight' = {}
               THEN /\ updates' = buildUpdates(viewerId', inProgressId')
                    /\ pc' = "updateIssue"
               ELSE /\ pc' = "updateInputs"
                    /\ UNCHANGED updates
          /\ UNCHANGED << exitCode, handlerRan, errorMessage >>
  /\ UNCHANGED << env, apiKey, probe, argv, configFile, gitName, currentBranch, mode, mainKey,
                  resolverKey, title, teams, team, issue, menu, query, results,
                  branchName, issueUrl, summary >>


\* `${gitName}/${issue.identifier}-${slug}`
branchNameOf(name, i) == name \o <<"/">> \o i.identifier \o <<"-">> \o slugify(i.title)

\* variant: only main is branched from
isTrunkMainOnly(b) == b = TxtMain

\* currentBranch === "main" || currentBranch === "master"
isTrunk(b) == b = TxtMain \/ b = TxtMaster

\* variant: the branch step is taken without the update having been sent
UpdateIssueSkipped ==
  /\ pc = "updateIssue"
  /\ branchName' = branchNameOf(gitName, issue)
  /\ pc' = IF isTrunk(currentBranch.text) THEN "pull" ELSE "renameBranch"
  /\ UNCHANGED << env, apiKey, probe, argv, configFile, exitCode, handlerRan, errorMessage, calls, gitName,
                  currentBranch, mode, mainKey, resolverKey, title, teams, team,
                  issue, inflight, viewerId, inProgressId, updates, menu, query,
                  results, issueUrl, summary >>

\* updateIssue(identifier, updates); then the branch name is computed and the
\* branch step chosen
UpdateIssue ==
  /\ pc = "updateIssue"
  /\ LET sent == << issue.identifier, updates.assigneeId, updates.stateId >> IN
     \/ /\ calls' = Append(calls, Call("updateIssue", sent, "fail"))
        /\ Throw(ErrApi)
        /\ UNCHANGED branchName
     \/ /\ calls' = Append(calls, Call("updateIssue", sent, "ok"))
        /\ branchName' = branchNameOf(gitName, issue)
        /\ pc' = IF isTrunk(currentBranch.text) THEN "pull" ELSE "renameBranch"
        /\ UNCHANGED << exitCode, handlerRan, errorMessage >>
  /\ UNCHANGED << env, apiKey, probe, argv, configFile, gitName, currentBranch, mode, mainKey,
                  resolverKey, title, teams, team, issue, inflight, viewerId,
                  inProgressId, updates, menu, query, results, issueUrl,
                  summary >>

\* ------------------------------------------------------------ main: branch

\* variant: the exit code of the subprocess is not looked at
GitStepUnchecked(at, op, args, next) ==
  /\ pc = at
  /\ \E res \in {"fail", "ok"} : calls' = Append(calls, Call(op, args, res))
  /\ pc' = next
  /\ UNCHANGED << env, apiKey, probe, argv, configFile, exitCode, handlerRan, errorMessage, gitName,
                  currentBranch, mode, mainKey, resolverKey, title, teams, team,
                  issue, inflight, viewerId, inProgressId, updates, menu, query,
                  results, branchName, issueUrl, summary >>

\* one gitExec of createBranch / renameBranch: non-zero exit throws
GitStep(at, op, args, next) ==
  /\ pc = at
  /\ \/ /\ calls' = Append(calls, Call(op, args, "fail"))
        /\ Throw(ErrGit(GitVerb(op)))
     \/ /\ calls' = Append(calls, Call(op, args, "ok"))
        /\ pc' = next
        /\ UNCHANGED << exitCode, handlerRan, errorMessage >>
  /\ UNCHANGED << env, apiKey, probe, argv, configFile, gitName, currentBranch, mode, mainKey,
                  resolverKey, title, teams, team, issue, inflight, viewerId,
                  inProgressId, updates, menu, query, results, branchName,
                  issueUrl, summary >>

\* createBranch: git pull origin <fromBranch> --quiet
Pull == GitStep("pull", "git pull", <<currentBranch.text>>, "checkout")

\* createBranch: git checkout -b <name>
Checkout == GitStep("checkout", "git checkout -b", <<branchName>>, "getIssueUrl")

\* renameBranch: git branch -m <newName>
RenameBranch == GitStep("renameBranch", "git branch -m", <<branchName>>, "getIssueUrl")

\* ------------------------------------------------------------ main: summary

\* what clack.note prints: identifier, title, branch, and the URL if there is one
summaryOf(i, branch, url) ==
  [identifier |-> i.identifier, title |-> i.title, branch |-> branch, url |-> url]

\* getIssueUrl(identifier): an error, null, or the URL; then the summary
GetIssueUrl ==
  /\ pc = "getIssueUrl"
  /\ \/ /\ calls' = Append(calls, Call("getIssueUrl", <<issue.identifier>>, "fail"))
        /\ Throw(ErrApi)
        /\ UNCHANGED << issueUrl, summary >>
     \/ \E url \in {None, Some(TxtUrl)} :
          /\ calls' = Append(calls, Call("getIssueUrl", <<issue.identifier>>,
                                         IF url.has THEN "ok" ELSE "null"))
          /\ issueUrl' = url
          /\ summary' = <<summaryOf(issue, branchName, url)>>
          /\ Return
  /\ UNCHANGED << env, apiKey, probe, argv, configFile, gitName, currentBranch, mode, mainKey,
                  resolverKey, title, teams, team, issue, inflight, viewerId,
                  inProgressId, updates, menu, query, results, branchName >>

\* ------------------------------------------------------------ specification

Next ==
  \/ LoadApiKey
  \/ GetGitName
  \/ PromptGitName
  \/ GetCurrentBranch
  \/ MainLoadTeamConfig
  \/ ResolveIssue
  \/ GetIssueById
  \/ SearchIssues
  \/ PickIssue
  \/ PromptIssueTitle
  \/ ResolveTeamId
  \/ GetTeams
  \/ SelectTeam
  \/ SaveTeamConfig
  \/ CreateIssue
  \/ MenuFetch
  \/ MenuText
  \/ MenuSelect
  \/ UpdateInputs
  \/ UpdateIssue
  \/ Pull
  \/ Checkout
  \/ RenameBranch
  \/ GetIssueUrl

Spec == Init /\ [][Next]_vars


\* ------------------------------------------------------------ properties

Indices == 1..Len(calls)
IssuedOps == { calls[i].op : i \in Indices }
CountOf(op) == Cardinality({ i \in Indices : calls[i].op = op })
Linked == currentBranch.has /\ LinkSplits(currentBranch.text) # {}
Summarised == summary # <<>>

\* the positional arguments joined by one space and trimmed
JoinedArgs == Trim(Join(argv.positionals, <<" ">>))

\* C1: once main has read a branch name matching
\* ^[a-z]+/[A-Z]+-[0-9]+-[a-z0-9-]+$ the run has ended with exit code 0, not
\* through the error handler, and has issued no tracker call and no git
\* mutation (pull, checkout -b, branch -m), whatever the flags and arguments.
C1_LinkedBranchIsNoOp ==
  Linked =>
    /\ pc = "exited"
    /\ exitCode = 0
    /\ ~handlerRan
    /\ IssuedOps \cap (TrackerOps \cup GitMutationOps) = {}

C1_Witness ==
  /\ Linked
  /\ pc = "exited"
  /\ "--auto" \in argv.flags
  /\ JoinedArgs = TxtEng142

\* the issue-ID pattern of the claims: ^<key>-\d+$ with a cached key, else
\* ^[A-Z]+-\d+$
IdPattern(key, s) ==
  IF key # <<>> THEN MatchesTeamId(key, s) ELSE MatchesGenericId(s)

\* the first tracker call of the run, if any, is `op` with the arguments `args`
FirstTrackerCallIs(op, args) ==
  \A i \in Indices :
    (calls[i].op \in TrackerOps /\ \A j \in 1..(i - 1) : calls[j].op \notin TrackerOps)
      => (calls[i].op = op /\ calls[i].args = args)

\* C2: without --auto and -c, a free-text argument matching the issue-ID
\* pattern (built from the team key cached when main checks it) is resolved by
\* exactly one getIssueById(arg) call, with no searchIssues call and no picker;
\* an argument not matching the pattern is searched and never looked up.
C2_IdArgumentIsDirectLookup ==
  ("--auto" \notin argv.flags /\ "-c" \notin argv.flags /\ mainKey.has) =>
    IF IdPattern(mainKey.text, JoinedArgs)
      THEN /\ mode = Mode("direct", Some(JoinedArgs))
           /\ "searchIssues" \notin IssuedOps
           /\ "pickIssue" \notin IssuedOps
           /\ FirstTrackerCallIs("getIssueById", <<JoinedArgs>>)
           /\ CountOf("getIssueById") =
                (IF pc \in {"resolveIssue", "getIssueById"} THEN 0 ELSE 1)
      ELSE /\ mode = Mode("search", Some(JoinedArgs))
           /\ "getIssueById" \notin IssuedOps
           /\ FirstTrackerCallIs("searchIssues", <<JoinedArgs>>)
           /\ pc \notin {"resolveIssue", "searchIssues"}
                => CountOf("searchIssues") = 1

\* a team key is cached and the argument, with another team's prefix, was
\* searched
C2_Witness ==
  /\ "--auto" \notin argv.flags
  /\ "-c" \notin argv.flags
  /\ mainKey = Some(TxtEng)
  /\ JoinedArgs = TxtOps7
  /\ "searchIssues" \in IssuedOps
  /\ pc = "pickIssue"


\* the calls that end issue resolution with an issue
ResolvingOps == { "getIssueById", "createIssue", "pickIssue", "menuSelect" }
BranchOps == { "git checkout -b", "git branch -m" }
OkAt(i, ops) == calls[i].op \in ops /\ calls[i].res = "ok"

\* C3: no git mutation is issued before an updateIssue call has succeeded, and
\* a run that printed the summary has, in this order: resolved the issue, had
\* updateIssue succeed, had the branch created or renamed, fetched the issue
\* URL as its last call.
C3_StepOrder ==
  /\ \A g \in Indices :
       calls[g].op \in GitMutationOps
         => \E u \in 1..(g - 1) : OkAt(u, {"updateIssue"})
  /\ Summarised =>
       LET R == { k \in Indices : OkAt(k, ResolvingOps) }
           U == { k \in Indices : calls[k].op = "updateIssue" }
           G == { k \in Indices : calls[k].op \in BranchOps }
           q == Len(calls)
       IN  /\ Cardinality(U) = 1
           /\ Cardinality(G) = 1
           /\ \A u \in U, g \in G :
                /\ OkAt(u, {"updateIssue"})
                /\ OkAt(g, BranchOps)
                /\ \E r \in R : r < u
                /\ u < g
                /\ g < q
           /\ calls[q].op = "getIssueUrl"
           /\ calls[q].res \in {"ok", "null"}

C3_Witness ==
  /\ Summarised
  /\ currentBranch = Some(TxtMain)
  /\ mode = Mode("direct", Some(TxtEng142))
  /\ "git pull" \in IssuedOps
  /\ summary[1].branch = branchNameOf(gitName, IssueA)

\* C4 (as claimed): an updateIssue call carries an assignee id or a state id;
\* with neither, no call is sent.
C4_NoEmptyUpdate ==
  \A i \in Indices :
    calls[i].op = "updateIssue"
      => (calls[i].args[2].has \/ calls[i].args[3].has)

\* C5: with --auto no prompt is ever shown or waited for, and the run ends
\* either by completing (summary printed, or already linked) with exit code 0
\* or through the error handler with exit code 1.
C5_AutoNeverPrompts ==
  "--auto" \in argv.flags =>
    /\ IssuedOps \cap PromptOps = {}
    /\ pc \notin { "promptGitName", "menuText", "menuSelect", "pickIssue",
                   "promptIssueTitle", "selectTeam" }
    /\ pc = "exited" =>
         \/ exitCode = 1 /\ handlerRan
         \/ exitCode = 0 /\ ~handlerRan /\ (Summarised \/ Linked)

\* unattended, no git user name, no cached team, several teams: an issue was
\* created without a prompt
C5_Witness ==
  /\ "--auto" \in argv.flags
  /\ gitName = TxtCi
  /\ Len(teams) > 1
  /\ \E i \in Indices : OkAt(i, {"createIssue"})
  /\ Summarised

\* C6: a cancelled prompt is the last thing the run did: the process has
\* exited with code 0, not through the error handler, and no call, prompt or
\* config write follows the cancellation.
C6_CancelExitsZero ==
  \A i \in Indices :
    calls[i].res = "cancel" =>
      /\ calls[i].op \in PromptOps
      /\ i = Len(calls)
      /\ pc = "exited"
      /\ exitCode = 0
      /\ ~handlerRan

C6_Witness ==
  /\ \E i \in Indices : calls[i].op = "selectTeam" /\ calls[i].res = "cancel"
  /\ \E i \in Indices : calls[i].op = "pickIssue" /\ calls[i].res = "create"
  /\ exitCode = 0

\* calls issued together with call i by one Promise.all
Siblings(i) ==
  { j \in Indices :
      \/ {calls[i].op, calls[j].op} = {"getViewerId", "getInProgressStateId"}
      \/ {calls[i].op, calls[j].op} = {"getAssignedTodos", "getRecentUnassigned"} }

\* a failed call of `ops` ended the run: exit code 1 through the error
\* handler, and the only calls logged after it are those issued with it
FailureAborts(ops) ==
  \A i \in Indices :
    (calls[i].op \in ops /\ calls[i].res = "fail") =>
      /\ pc = "exited"
      /\ exitCode = 1
      /\ handlerRan
      /\ \A j \in (i + 1)..Len(calls) : j \in Siblings(i)
      /\ \A j \in Indices : calls[j].op = calls[i].op => j = i

\* C7 (as claimed): every failed tracker call and every failed git subprocess
\* aborts the run with exit code 1, nothing being issued after it.
C7_EveryFailureAborts == FailureAborts(TrackerOps \cup GitOps)

\* C7 (amended): every failed tracker call and every failed git subprocess
\* other than `git config user.name` aborts the run with exit code 1, without
\* retry and with nothing issued after it; a failed `git config user.name` and
\* a corrupt team-config file are swallowed: the first leaves the name to "ci"
\* or the prompt, the second reads as no cached team.
C7_FailureAbortsButGitConfig ==
  /\ FailureAborts((TrackerOps \cup GitOps) \ {"git config"})
  /\ (configFile.st = "corrupt" /\ resolverKey.has) => resolverKey.text = <<>>
  /\ (configFile.st = "corrupt" /\ mainKey.has) => mainKey.text = <<>>
  /\ \A i \in Indices :
       (calls[i].op = "git config" /\ calls[i].res = "fail" /\ i < Len(calls))
         => \/ gitName = TxtCi /\ "--auto" \in argv.flags
            \/ calls[i + 1].op = "promptGitName"

\* a pull failed after the update went through, with a corrupt config file
\* that did not stop the run
C7_Witness ==
  /\ configFile.st = "corrupt"
  /\ resolverKey.has
  /\ \E i \in Indices : calls[i].op = "git pull" /\ calls[i].res = "fail"
  /\ \E i \in Indices : calls[i].op = "git config" /\ calls[i].res = "fail"
  /\ exitCode = 1


\* C8 (as claimed): with -c or --create given and --auto not, the classified
\* intent is create, titled with the joined positional arguments or untitled
\* when there are none.
C8_BothCreateSpellings ==
  ( /\ mode # NoMode
    /\ "--auto" \notin argv.flags
    /\ argv.flags \cap {"-c", "--create"} # {} )
    => mode = Mode("create", OrUndefined(JoinedArgs))

\* the intent the decision order of the claim gives for the flags and the text
Classified(auto, create, text) ==
  IF auto THEN [type |-> "auto", has |-> text # <<>>, text |-> text]
  ELSE IF create THEN [type |-> "create", has |-> text # <<>>, text |-> text]
  ELSE IF text = <<>> THEN [type |-> "interactive", has |-> FALSE, text |-> <<>>]
  ELSE [type |-> "search", has |-> TRUE, text |-> text]

\* C9: the classified intent is the one the decision order auto, create (-c),
\* no text, search gives for the flags and the joined positional arguments,
\* whatever the rest of the environment is; the only later change of the
\* intent is main's upgrade of that search to direct.
C9_ClassificationOrder ==
  LET want == Classified("--auto" \in argv.flags, "-c" \in argv.flags, JoinedArgs)
  IN  mode # NoMode =>
        \/ mode = want
        \/ /\ want.type = "search"
           /\ mainKey.has
           /\ mode = [type |-> "direct", has |-> TRUE, text |-> JoinedArgs]

\* both flags set: the intent is auto
C9_Witness ==
  /\ {"--auto", "-c"} \subseteq argv.flags
  /\ JoinedArgs = TxtFixBug
  /\ mode.type = "auto"
  /\ pc = "resolveTeamId"

\* C10: in --auto mode, once resolveIssue has run: without an argument the run
\* has failed with exit code 1 having issued no tracker call and no git
\* mutation; with an argument matching the issue-ID pattern the only
\* resolving call is one getIssueById(arg), never a create, and a lookup
\* returning nothing fails the run; with any other argument the only resolving
\* call is one createIssue titled exactly with the argument, never a lookup or
\* a search.
C10_AutoIntent ==
  ("--auto" \in argv.flags /\ resolverKey.has) =>
    IF JoinedArgs = <<>>
      THEN /\ pc = "exited"
           /\ exitCode = 1
           /\ handlerRan
           /\ IssuedOps \cap (TrackerOps \cup GitMutationOps) = {}
    ELSE IF IdPattern(resolverKey.text, JoinedArgs)
      THEN /\ IssuedOps \cap {"createIssue", "getTeams", "searchIssues"} = {}
           /\ FirstTrackerCallIs("getIssueById", <<JoinedArgs>>)
           /\ CountOf("getIssueById") = (IF pc = "getIssueById" THEN 0 ELSE 1)
           /\ \A i \in Indices :
                (calls[i].op = "getIssueById" /\ calls[i].res = "null")
                  => (i = Len(calls) /\ pc = "exited" /\ exitCode = 1)
      ELSE /\ IssuedOps \cap {"getIssueById", "searchIssues"} = {}
           /\ CountOf("createIssue") <= 1
           /\ \A i \in Indices :
                calls[i].op = "createIssue" => calls[i].args[1] = JoinedArgs
           /\ issue # NoIssue =>
                (issue.title = JoinedArgs /\ "createIssue" \in IssuedOps)

\* a team key is cached and the argument carries another team's prefix: an
\* issue titled with the argument was created
C10_Witness ==
  /\ "--auto" \in argv.flags
  /\ resolverKey = Some(TxtEng)
  /\ JoinedArgs = TxtOps7
  /\ \E i \in Indices : OkAt(i, {"createIssue"}) /\ calls[i].args[1] = TxtOps7
  /\ Summarised

\* ------------------------------------------------------------ C11

\* the log index of the menu's text prompt
MenuTextIndex == CHOOSE i \in Indices : calls[i].op = "menuText"

\* C11: text typed into the interactive menu is resolved as the search intent
\* resolves it: the todo/recent list is not shown, and the call after the text
\* prompt is getIssueById(text) with no searchIssues call and no picker when
\* the text matches the issue-ID pattern (built from the cached team key),
\* else searchIssues(text) followed by the picker.
C11_TypedTextIsSearchIntent ==
  (mode.type = "interactive" /\ query # <<>>) =>
    /\ "menuSelect" \notin IssuedOps
    /\ MenuTextIndex < Len(calls) =>
         IF IdPattern(resolverKey.text, query)
           THEN /\ calls[MenuTextIndex + 1].op = "getIssueById"
                /\ calls[MenuTextIndex + 1].args = <<query>>
                /\ "searchIssues" \notin IssuedOps
                /\ "pickIssue" \notin IssuedOps
           ELSE /\ calls[MenuTextIndex + 1].op = "searchIssues"
                /\ calls[MenuTextIndex + 1].args = <<query>>
                /\ MenuTextIndex + 1 < Len(calls)
                     => calls[MenuTextIndex + 2].op \in {"pickIssue"}

\* ------------------------------------------------------------ C12

TxtKeyNotFound ==
  << "L","I","N","E","A","R","_","A","P","I","_","K","E","Y"," ",
     "n","o","t"," ","f","o","u","n","d" >>

EnvKeySet == env.apiKeyVar.has /\ env.apiKeyVar.text # <<>>

\* a line of the .env file at the git root starts with LINEAR_API_KEY=
DotEnvHasKeyLine ==
  /\ env.gitRoot
  /\ env.dotEnv.has
  /\ \E k \in 1..Len(SplitLinesFrom(env.dotEnv.text, <<>>)) :
       LET line == SplitLinesFrom(env.dotEnv.text, <<>>)[k] IN
       /\ Len(line) >= Len(TxtKeyPrefix)
       /\ SubSeq(line, 1, Len(TxtKeyPrefix)) = TxtKeyPrefix

\* C12: with the environment variable unset or empty and no LINEAR_API_KEY
\* line in a .env file at the git root (or no git root), the run has ended
\* with exit code 1 and a message containing "LINEAR_API_KEY not found" as
\* soon as loadApiKey is over, without any tracker call, prompt, git mutation
\* or config write; with the variable set, its value is the key in use and
\* neither the git root nor the .env file was looked at.
C12_MissingKeyFailsFirst ==
  pc # "loadApiKey" =>
    /\ (~EnvKeySet /\ ~DotEnvHasKeyLine) =>
         /\ pc = "exited"
         /\ exitCode = 1
         /\ handlerRan
         /\ Contains(errorMessage, TxtKeyNotFound)
         /\ IssuedOps \cap (TrackerOps \cup PromptOps \cup GitMutationOps
                              \cup ConfigWriteOps) = {}
    /\ EnvKeySet =>
         /\ apiKey = env.apiKeyVar.text
         /\ IssuedOps \cap ({"git rev-parse"} \cup { "read .env" }) = {}

\* an empty variable and a .env file without the key: the run failed
C12_Witness ==
  /\ env.apiKeyVar = Some(<<>>)
  /\ env.gitRoot
  /\ env.dotEnv.has
  /\ ~DotEnvHasKeyLine
  /\ pc = "exited"
  /\ exitCode = 1
  /\ "read .env" \in IssuedOps

\* ------------------------------------------------------------ functions on their own

\* main() is not running: only `probe` changes
Parked ==
  /\ env = Env(Some(TxtKeyEnv), TRUE, None)
  /\ apiKey = <<>>
  /\ errorMessage = <<>>
  /\ argv = [flags |-> {}, positionals |-> <<>>]
  /\ configFile = [st |-> "absent", teamId |-> <<>>, teamKey |-> <<>>]
  /\ pc = "parked"
  /\ exitCode = -1
  /\ handlerRan = FALSE
  /\ calls = <<>>
  /\ gitName = <<>>
  /\ currentBranch = None
  /\ mode = NoMode
  /\ mainKey = None
  /\ resolverKey = None
  /\ title = None
  /\ teams = <<>>
  /\ team = [id |-> <<>>, key |-> <<>>]
  /\ issue = NoIssue
  /\ inflight = {}
  /\ viewerId = <<>>
  /\ inProgressId = None
  /\ updates = [assigneeId |-> None, stateId |-> None]
  /\ menu = NoMenu
  /\ query = <<>>
  /\ results = <<>>
  /\ branchName = <<>>
  /\ issueUrl = None
  /\ summary = <<>>

mainVars == << env, apiKey, errorMessage, argv, configFile, pc, exitCode,
               handlerRan, calls, gitName, currentBranch, mode, mainKey,
               resolverKey, title, teams, team, issue, inflight, viewerId,
               inProgressId, updates, menu, query, results, branchName,
               issueUrl, summary >>

\* ------------------------------------------------------------ slugify on its own

MaxTitleLen == 3
MaxApplications == 2

\* an upper- and a lower-case letter, a digit, a space, a hyphen, punctuation
TitleChars == {"a", "B", "1", " ", "-", "!"}
TxtSixWords == <<"a"," ","b"," "," ","c"," ","d"," ","e"," ","f">>
Titles ==
  UNION { [1..n -> TitleChars] : n \in 0..MaxTitleLen }
    \cup { TxtSixWords, TxtFixLoginBug, TxtBangs }

InitSlugify ==
  /\ Parked
  /\ \E t \in Titles : probe = [fn |-> "slugify", in |-> t, out |-> <<>>]

\* slugify applied to the title, then to its own result
ApplySlugify ==
  /\ probe.fn = "slugify"
  /\ Len(probe.out) < MaxApplications
  /\ probe' = [probe EXCEPT !.out =
                 Append(@, slugify(IF @ = <<>> THEN probe.in ELSE @[Len(@)]))]
  /\ UNCHANGED mainVars


SpecSlugify == InitSlugify /\ [][ApplySlugify]_vars

\* ------------------------------------------------------------ C14

\* C14: slugify applied to its own result gives that result again.
C14_SlugifyIdempotent ==
  (probe.fn = "slugify" /\ Len(probe.out) >= 2) => probe.out[2] = probe.out[1]

\* C14 as it holds: slugify applied to its own result gives that result
\* without its hyphens, hence the same string exactly when the result has at
\* most one word.
C14_SecondSlugDropsHyphens ==
  (probe.fn = "slugify" /\ Len(probe.out) >= 2) =>
    /\ probe.out[2] = SelectSeq(probe.out[1], LAMBDA c : c # "-")
    /\ (probe.out[2] = probe.out[1]) <=> (\A k \in 1..Len(probe.out[1]) :
                                            probe.out[1][k] # "-")

\* a title of two words was slugified twice
C14_Witness ==
  /\ probe.fn = "slugify"
  /\ Len(probe.out) = 2
  /\ \E k \in 1..Len(probe.out[1]) : probe.out[1][k] = "-"
  /\ probe.out[2] # <<>>

\* ------------------------------------------------------------ the state id on its own

MaxStates == 2

TxtInProgressLower == <<"i","n"," ","p","r","o","g","r","e","s","s">>
StateNames == { TxtInProgress, TxtInProgressLower, <<"P","R","O","G","R","E","S","S">>, TxtTodo }

\* the id of the k-th state of a team
StateIdAt(k) == << "s", CHOOSE c \in Digit : c = ToString(k) >>

\* the lists team { states { nodes } } can carry: any names and types, the
\* ids distinct
WorkflowStateLists ==
  UNION { { [k \in 1..n |-> WfState(StateIdAt(k), names[k], types[k])] :
              names \in [1..n -> StateNames], types \in [1..n -> { TxtStarted, TxtUnstarted }] } :
          n \in 0..MaxStates }

InitStateId ==
  /\ Parked
  /\ \E sl \in WorkflowStateLists, v \in ViewerIds :
       probe = [fn |-> "getInProgressStateId",
                in |-> [states |-> sl, viewerId |-> v],
                out |-> <<>>]

\* getInProgressStateId on the list, then the updates object main builds
ApplyStateId ==
  /\ probe.fn = "getInProgressStateId"
  /\ probe.out = <<>>
  /\ LET sId == getInProgressStateId(probe.in.states) IN
       probe' = [probe EXCEPT !.out =
                   << [stateId |-> sId,
                       updates |-> buildUpdates(probe.in.viewerId, sId)] >>]
  /\ UNCHANGED mainVars


SpecStateId == InitStateId /\ [][ApplyStateId]_vars

\* ------------------------------------------------------------ C13

\* the least element of a non-empty set of positions
FirstOf(S) == CHOOSE k \in S : \A j \in S : k <= j

\* C13: the state id of the update is the id of the first state named exactly
\* "In Progress", whatever its type; without such a state the id of the first
\* state of type "started" whose name contains "progress" in any letter case;
\* without that either the update has no state id, and it still has the
\* assignee id whenever the viewer id is not empty.
C13_StateIdChoice ==
  (probe.fn = "getInProgressStateId" /\ probe.out # <<>>) =>
    LET states == probe.in.states
        upd == probe.out[1].updates
        Named == { k \in 1..Len(states) : states[k].name = TxtInProgress }
        Started == { k \in 1..Len(states) :
                       /\ states[k].type = TxtStarted
                       /\ Contains(ToLowerCase(states[k].name), TxtProgress) }
    IN /\ Named # {} => upd.stateId = Some(states[FirstOf(Named)].id)
       /\ (Named = {} /\ Started # {})
            => upd.stateId = Some(states[FirstOf(Started)].id)
       /\ (Named = {} /\ Started = {}) => upd.stateId = None
       /\ probe.in.viewerId # <<>> => upd.assigneeId = Some(probe.in.viewerId)

\* a started "in progress" precedes an unstarted "In Progress": the second
\* state's id is the one sent
C13_Witness ==
  /\ probe.fn = "getInProgressStateId"
  /\ probe.out # <<>>
  /\ Len(probe.in.states) = 2
  /\ probe.in.states[1].name = TxtInProgressLower
  /\ probe.in.states[1].type = TxtStarted
  /\ probe.in.states[2].name = TxtInProgress
  /\ probe.in.states[2].type = TxtUnstarted
  /\ probe.out[1].updates.stateId = Some(probe.in.states[2].id)

\* ------------------------------------------------------------ C15

\* C15: the intent is set once, by classification, to auto, create,
\* interactive or search; the only later change is search(q) becoming
\* direct(q), for a q matching the issue-ID pattern built from the team key
\* cached at that moment (the generic pattern without one); interactive,
\* create, auto and direct are never replaced.
C15_IntentRefinedOnce ==
  [][ mode' # mode =>
        IF mode = NoMode
          THEN mode'.type \in {"auto", "create", "interactive", "search"}
          ELSE /\ mode.type = "search"
               /\ mode' = [type |-> "direct", has |-> TRUE, text |-> mode.text]
               /\ mainKey'.has
               /\ IdPattern(mainKey'.text, mode.text) ]_vars

\* with the team ENG cached, a search for ENG-142 was refined and looked up
C15_Witness ==
  /\ mode.type = "direct"
  /\ mode.text = TxtEng142
  /\ mainKey = Some(TxtEng)
  /\ "getIssueById" \in IssuedOps

\* ------------------------------------------------------------ C16

At(op) == { i \in Indices : calls[i].op = op }

\* C16: on main or master the only git mutations are a pull of that very
\* branch and, after the pull succeeded, one checkout -b (none after a failed
\* pull), and nothing is renamed; on every other unlinked branch the only git
\* mutation is one branch -m, with no pull and no checkout -b; a run that
\* reached its summary has exactly one checkout -b or branch -m, and it
\* succeeded.
C16_BranchActionByName ==
  currentBranch.has =>
    LET b == currentBranch.text
        Pulls == At("git pull")
        Creates == At("git checkout -b")
        Renames == At("git branch -m")
    IN /\ (b = TxtMain \/ b = TxtMaster) =>
            /\ Renames = {}
            /\ Cardinality(Pulls) <= 1
            /\ \A p \in Pulls : calls[p].args = <<b>>
            /\ \A c \in Creates :
                 /\ c - 1 \in Pulls
                 /\ calls[c - 1].res = "ok"
            /\ (\E p \in Pulls : calls[p].res = "fail") => Creates = {}
       /\ (b # TxtMain /\ b # TxtMaster) =>
            /\ Pulls = {}
            /\ Creates = {}
       /\ Cardinality(Creates \cup Renames) <= 1
       /\ Summarised =>
            /\ Cardinality(Creates \cup Renames) = 1
            /\ \A i \in Creates \cup Renames : calls[i].res = "ok"
            /\ Creates # {} <=> (b = TxtMain \/ b = TxtMaster)

\* on master the pull succeeded and the branch was created
C16_Witness ==
  /\ currentBranch = Some(TxtMaster)
  /\ \E p \in At("git pull") : calls[p].res = "ok" /\ calls[p].args = <<TxtMaster>>
  /\ At("git checkout -b") # {}
  /\ Summarised

\* ------------------------------------------------------------ the menu's options on their own

MaxTodos == 2
MaxRecent == 5

MenuIdentifiers == { <<"E","N","G","-",d>> : d \in {"1", "2", "3", "4", "5"} }

\* the lists of up to n issues a tracker connection can carry: each issue once
IssueLists(n) ==
  UNION { { [k \in 1..m |-> [identifier |-> ids[k], title |-> TxtFix]] :
              ids \in { f \in [1..m -> MenuIdentifiers] :
                          \A i, j \in 1..m : f[i] = f[j] => i = j } } :
          m \in 0..n }

InitMenu ==
  /\ Parked
  /\ \E t \in IssueLists(MaxTodos), r \in IssueLists(MaxRecent) :
       probe = [fn |-> "showInteractiveMenu",
                in |-> [todos |-> t, recent |-> r],
                out |-> <<>>]

\* the options showInteractiveMenu builds once nothing was typed
ApplyMenu ==
  /\ probe.fn = "showInteractiveMenu"
  /\ probe.out = <<>>
  /\ probe' = [probe EXCEPT !.out = <<menuValues(probe.in.todos, probe.in.recent)>>]
  /\ UNCHANGED mainVars


SpecMenu == InitMenu /\ [][ApplyMenu]_vars

\* ------------------------------------------------------------ C17

\* `issue:${identifier}` of each issue of a list
ValuesOf(list) == { <<"i","s","s","u","e",":">> \o list[k].identifier : k \in 1..Len(list) }

TeamOps == { "getTeams", "selectTeam", "saveTeamConfig" }

\* a valid team config was on disk when the run began resolving the issue
TeamWasCached == resolverKey.has /\ resolverKey.text # <<>>

\* the create call at index c was issued with the cached team, or after the
\* teams were fetched, one of them chosen and written to the config file
TeamResolvedBefore(c) ==
  IF TeamWasCached
    THEN /\ IssuedOps \cap TeamOps = {}
         /\ calls[c].args[2] = configFile.teamId
    ELSE /\ Cardinality(At("getTeams")) = 1
         /\ Cardinality(At("saveTeamConfig")) = 1
         /\ Cardinality(At("selectTeam")) <= 1
         /\ \A g \in At("getTeams"), s \in At("saveTeamConfig") :
              /\ g < s
              /\ s = c - 1
              /\ calls[g].res = "ok"
              /\ calls[s].res = "ok"
              /\ \E k \in 1..Len(teams) :
                   /\ calls[s].args = << teams[k].id, teams[k].key >>
                   /\ (Len(teams) = 1 \/ "--auto" \in argv.flags) => k = 1
              /\ calls[c].args[2] = calls[s].args[1]
              /\ IF Len(teams) = 1 \/ "--auto" \in argv.flags
                   THEN At("selectTeam") = {}
                   ELSE \E p \in At("selectTeam") :
                          g < p /\ p < s /\ calls[p].res = "ok"

CreateAfterTeam == \A c \in At("createIssue") : TeamResolvedBefore(c)

\* C18: every create call is issued with a resolved team: with a valid team
\* config cached no team is fetched, prompted for or written and the cached
\* team id is sent; otherwise the teams are fetched, one is chosen (the only
\* one, the first in --auto mode, else the user's pick), written to the
\* config file, and only then is the create call issued, with that team's id.
\* A run that ended without issuing a create call has fetched no teams and
\* written no config file.
C18_TeamBeforeCreate ==
  /\ CreateAfterTeam
  /\ (pc = "exited" /\ At("createIssue") = {})
       => IssuedOps \cap {"getTeams", "saveTeamConfig"} = {}

\* C18 as it holds: as above for the create calls; as long as the create flow
\* has not settled a title no team is fetched and no config file written,
\* while a run that did settle one can fetch the teams and write the config
\* file and still issue no create call.
C18_TeamBeforeCreateOnceTitled ==
  /\ CreateAfterTeam
  /\ ~title.has => IssuedOps \cap TeamOps = {}
  /\ IssuedOps \cap TeamOps # {} => ~TeamWasCached

\* no team cached, two teams fetched, the second picked and saved, the issue
\* created in it
C18_Witness ==
  /\ ~TeamWasCached
  /\ Len(teams) = 2
  /\ \E s \in At("saveTeamConfig"), c \in At("createIssue") :
       /\ calls[s].args[1] = teams[2].id
       /\ calls[c].args[2] = teams[2].id
       /\ calls[c].res = "ok"
  /\ Summarised

\* ------------------------------------------------------------ C19

TxtTitleIsRequired ==
  << "T","i","t","l","e"," ","i","s"," ","r","e","q","u","i","r","e","d" >>

\* the create flow was entered without a title: -c without text, or the
\* create option of a picker or of the menu
EnteredUntitled ==
  \/ mode.type = "create" /\ ~mode.has /\ resolverKey.has
  \/ \E i \in At("pickIssue") \cup At("menuSelect") : calls[i].res = "create"

\* C19: no create call carries an absent or empty title, and no team is
\* fetched or written before a title is there; a create flow entered without a
\* title prompts for one, and never in --auto mode; a run that failed with
\* "Title is required" has fetched no teams, written no config file and
\* issued no create call.
C19_TitleBeforeCreate ==
  /\ \A c \in At("createIssue") : calls[c].args[1] # <<>>
  /\ IssuedOps \cap (TeamOps \cup {"createIssue"}) # {}
       => (title.has /\ title.text # <<>>)
  /\ EnteredUntitled
       => (pc = "promptIssueTitle" \/ "promptIssueTitle" \in IssuedOps)
  /\ "promptIssueTitle" \in IssuedOps
       => (EnteredUntitled /\ "--auto" \notin argv.flags)
  /\ Contains(errorMessage, TxtTitleIsRequired)
       => IssuedOps \cap (TeamOps \cup {"createIssue"}) = {}

\* -c without a title: the title was prompted for and the issue created with it
C19_Witness ==
  /\ mode.type = "create"
  /\ ~mode.has
  /\ \E p \in At("promptIssueTitle"), c \in At("createIssue") :
       /\ p < c
       /\ calls[p].res = "ok"
       /\ calls[c].res = "ok"
       /\ calls[c].args[1] = TxtFixBug

\* ------------------------------------------------------------ C20

JoinedBefore(first, second, after) ==
  /\ \A i \in At(first) : i < Len(calls) /\ calls[i + 1].op = second
  /\ \A j \in At(second) : j > 1 /\ calls[j - 1].op = first
  /\ \A a \in Indices :
       calls[a].op \in after =>
         /\ \E i \in At(first) : i < a /\ calls[i].res = "ok"
         /\ \E j \in At(second) : j < a /\ calls[j].res = "ok"
  /\ \A i \in At(first) \cup At(second) :
       /\ calls[i].res = "pending" =>
            \/ inflight # {} /\ calls[i].op \in inflight
            \/ pc = "exited" /\ exitCode = 1
       /\ calls[i].res = "fail" =>
            /\ pc = "exited"
            /\ exitCode = 1
            /\ handlerRan
            /\ \A a \in Indices :
                 calls[a].op \in after \cup {"updateIssue"} \cup GitMutationOps
                   => a < i

\* C21: getViewerId and getInProgressStateId are issued together and
\* updateIssue only after both completed, with the assignee id and the state
\* id the two calls returned, whichever completed first; getAssignedTodos and
\* getRecentUnassigned are issued together and the menu is shown only after
\* both completed; a failure of any of the four ends the run with exit code 1
\* without an update call or a git mutation.
C21_PairsAreJoined ==
  /\ JoinedBefore("getViewerId", "getInProgressStateId",
                  {"updateIssue"} \cup GitMutationOps \cup {"getIssueUrl"})
  /\ JoinedBefore("getAssignedTodos", "getRecentUnassigned",
                  {"menuText", "menuSelect"})
  /\ \A u \in At("updateIssue") :
       calls[u].args =
         << issue.identifier,
            IF viewerId # <<>> THEN Some(viewerId) ELSE None,
            IF inProgressId.has /\ inProgressId.text # <<>>
              THEN inProgressId ELSE None >>

\* the state id arrived while getViewerId was still in flight
C21_Witness ==
  /\ pc = "updateInputs"
  /\ inflight = {"getViewerId"}
  /\ inProgressId = Some(TxtSt2)
  /\ \E i \in At("getViewerId") : calls[i].res = "pending"
  /\ \E j \in At("getInProgressStateId") : calls[j].res = "ok"

\* ------------------------------------------------------------ C22

\* what a run changes outside itself: the config file, the tracker's issues,
\* the repository's branches
WriteOps == ConfigWriteOps \cup {"createIssue", "updateIssue"} \cup GitMutationOps

\* C22: every prompt of a run is shown before every config-file write,
\* tracker create or update call and git mutation of that run; a run in which
\* a prompt was cancelled has issued none of these and ended with exit code 0.
C22_PromptsBeforeWrites ==
  LET P == { i \in Indices : calls[i].op \in PromptOps }
      W == { i \in Indices : calls[i].op \in WriteOps }
  IN /\ \A p \in P, w \in W : p < w
     /\ (\E p \in P : calls[p].res = "cancel") =>
          /\ W = {}
          /\ pc = "exited"
          /\ exitCode = 0

\* the team prompt, shown after the teams were fetched, was cancelled
C22_Witness ==
  /\ \E p \in At("selectTeam") : calls[p].res = "cancel"
  /\ "promptIssueTitle" \in IssuedOps
  /\ "getTeams" \in IssuedOps
  /\ pc = "exited"
  /\ exitCode = 0

\* ------------------------------------------------------------ C23

\* C23: the branch name a run that reached its summary created or renamed to
\* is reported as linked by isAlreadyLinked, with the resolved issue's
\* identifier as its issue id, so that the next run ends at the linked check.
C23_RerunIsNoOp ==
  Summarised =>
    /\ branchName = gitName \o <<"/">> \o issue.identifier \o <<"-">> \o slugify(issue.title)
    /\ isAlreadyLinked(branchName).linked
    /\ isAlreadyLinked(branchName).issueId = issue.identifier

\* ------------------------------------------------------------ C24

\* C24: no team-config write is issued before the resolver has read the
\* config, so main's pattern check and the resolver's see the same team key:
\* a search intent the resolver has received does not match the issue-ID
\* pattern built from the resolver's key and is never looked up by id, and a
\* query main upgraded to direct matches the resolver's pattern too and is
\* never searched nor offered in the picker.
C24_BothChecksAgree ==
  /\ ~resolverKey.has => "saveTeamConfig" \notin IssuedOps
  /\ (mainKey.has /\ resolverKey.has) => mainKey = resolverKey
  /\ (mode.type = "search" /\ resolverKey.has) =>
       /\ mainKey = resolverKey
       /\ ~IdPattern(resolverKey.text, mode.text)
       /\ "getIssueById" \notin IssuedOps
  /\ mode.type = "direct" =>
       /\ mainKey.has
       /\ IdPattern(mainKey.text, mode.text)
       /\ resolverKey.has => IdPattern(resolverKey.text, mode.text)
       /\ IssuedOps \cap {"searchIssues", "pickIssue"} = {}

\* a search run without a cached team: both checks used the generic pattern,
\* and the config file was written only later, by the create flow entered
\* from the picker
C24_Witness ==
  /\ mode.type = "search"
  /\ mainKey = Some(NoKey)
  /\ resolverKey = Some(NoKey)
  /\ \E w \in At("saveTeamConfig") :
       /\ calls[w].res = "ok"
       /\ \E s \in At("searchIssues") : s < w
  /\ loadTeamConfig(configFile).teamKey # NoKey

====
